---- MODULE Spec2Model ----
(***************************************************************************)
(* A model of nemo/utils/exp_manager.py: one call of exp_manager(trainer,  *)
(* cfg) as the sequence of its steps (entry checks, error_checks,          *)
(* get_log_dir, check_resume, log-directory setup, logger and checkpoint   *)
(* configuration, rank-zero bookkeeping and return), and of the recipe     *)
(* factories of nemo/collections/llm/recipes/llama31_70b.py (trainer,      *)
(* pretrain_recipe, finetune_recipe), each as one step from its arguments  *)
(* to the recipe it returns or the error it raises.                        *)
(*                                                                         *)
(* Conventions.  Python's None is the string None == "<None>" where the    *)
(* value is a string and NoPath / NoCkpt where it is a path.  A path is a  *)
(* sequence of components; a file name under log_dir is a pair <<prefix,   *)
(* rest>>, so that str.startswith and the glob "run_*" look at the first   *)
(* component.  A checkpoint found on disk is a record: kind "end"/"last"   *)
(* (the *end / *last pattern it matches), dist (a directory directly under *)
(* the checkpoint directory, i.e. a distributed checkpoint, rather than a  *)
(* *.ckpt path), unfinished (its unfinished marker is set), mp (the        *)
(* model-parallel component its path contains, "" if none).                *)
(*                                                                         *)
(* The optional S3 dependencies are taken to be importable whenever the    *)
(* dirpath is an S3 url (exp_manager.py lines 892-899).                    *)
(***************************************************************************)
EXTENDS Naturals, Sequences, FiniteSets, TLC

\* ------------------------------------------------------------------ bounds
MaxCkpts == 2           \* checkpoints the discovery may find
MaxRuns == 2            \* run_{int} directories left by earlier runs
MaxCallbacks == 4       \* callbacks on a trainer that is handed to exp_manager again
MaxNodeRank == 1        \* trainer.node_rank ranges over 0..MaxNodeRank
MaxDevices == 2         \* trainer.num_devices ranges over 1..MaxDevices
MaxNodes == 2           \* num_nodes of a recipe ranges over 1..MaxNodes
MaxGpus == 2            \* num_gpus_per_node of a recipe ranges over 1..MaxGpus
MaxParallel == 2        \* parallelism degrees of a recipe range over 1..MaxParallel

\* ------------------------------------------------------------------ values
None == "<None>"
NoPath == <<"<None>">>

Falsy(s) == s = None \/ s = ""
Truthy(s) == ~Falsy(s)

\* pathlib.Path(s): the empty string is the current directory and vanishes
\* when joined.
PathOf(s) == IF s = "" THEN <<>> ELSE <<s>>
\* truth value of an optional path string: None and "" are falsy
TruthyPath(p) == p # NoPath /\ p # <<>>

MpTags == {"", "mp_rank", "tp_rank", "fsdp_shard"}

NoCkpt ==
  [src |-> "none", kind |-> "", dist |-> FALSE, unfinished |-> FALSE, mp |-> ""]
GivenCkpt ==
  [src |-> "given", kind |-> "", dist |-> FALSE, unfinished |-> FALSE, mp |-> ""]
FoundCkpts ==
  [src : {"found"}, kind : {"end", "last"}, dist : BOOLEAN,
   unfinished : BOOLEAN, mp : MpTags]

\* trainer.logger: save_dir is a path (NoPath: None), version a string
NoLogger ==
  [present |-> FALSE, save_dir |-> NoPath, name |-> None, version |-> None]
SomeLoggers ==
  [present : {TRUE}, save_dir : {NoPath, <<"logger_dir">>},
   name : {"logger_name"}, version : {"0"}]

\* file names directly under log_dir
EventsFile == <<"events.out.tfevents", ".1">>
CmdArgsFile == <<"cmd-args.log", "">>
GitInfoFile == <<"git-info.log", "">>
ErrLogFile == <<"nemo_error_log.txt", "">>
PlLogFile == <<"lightning_logs.txt", "">>
RunDir(n) == <<"run_", ToString(n)>>
CkptSubdir == <<"checkpoints", "">>

\* ------------------------------------------------------------------ state
VARIABLES
  pc,        \* the step of exp_manager about to run; "returned" / "raised"
  trainer,   \* the lightning trainer handle
  cfg,       \* the configuration argument (kind "none": cfg is None)
  env,       \* process environment: version variable, rank, hydra, git
  fs,        \* what is on disk: checkpoint directory and log_dir
  loc,       \* exp_manager's locals: log_dir, exp_dir, name, version
  ret,       \* the value exp_manager returned
  exc,       \* the exception that ended the call, "" if none
  factory    \* a call of a recipe factory of llama31_70b.py and its outcome

vars == <<pc, trainer, cfg, env, fs, loc, ret, exc, factory>>

\* CallbackParams defaults.  has_filepath: the key "filepath" is in params;
\* filepath and dirpath are paths (NoPath: None).  cfg.dirpath below is the
\* same dirpath as the string check_resume is handed.
DefaultParams ==
  [has_filepath |-> TRUE, filepath |-> NoPath, dirpath |-> NoPath,
   filename |-> None, prefix |-> None, monitor |-> "val_loss",
   always_save_nemo |-> FALSE]

\* ExpManagerConfig defaults
DefaultCfg ==
  [kind |-> "dict",
   explicit_log_dir |-> None,
   exp_dir |-> None,
   name |-> None,
   version |-> None,
   use_datetime_version |-> TRUE,
   resume_if_exists |-> FALSE,
   resume_past_end |-> FALSE,
   resume_ignore_no_checkpoint |-> FALSE,
   resume_from_checkpoint |-> NoCkpt,
   create_tensorboard_logger |-> TRUE,
   create_wandb_logger |-> FALSE,
   create_mlflow_logger |-> FALSE,
   create_dllogger_logger |-> FALSE,
   create_clearml_logger |-> FALSE,
   create_neptune_logger |-> FALSE,
   neptune_kwargs_complete |-> FALSE,
   create_checkpoint_callback |-> TRUE,
   create_preemption_callback |-> TRUE,
   dirpath |-> None,
   checkpoint_callback_params |-> DefaultParams,
   log_local_rank_0_only |-> FALSE,
   log_global_rank_0_only |-> FALSE,
   wandb_has_name_or_project |-> FALSE,
   summary_writer_has_log_dir |-> FALSE,
   log_delta_step_timing |-> FALSE,
   log_step_timing |-> TRUE,
   create_straggler_detection_callback |-> FALSE,
   create_fault_tolerance_callback |-> FALSE]

DefaultTrainer ==
  [logger |-> NoLogger, fast_dev_run |-> FALSE, ckpt_path |-> NoCkpt,
   callbacks |-> <<>>, default_root_dir |-> NoPath, node_rank |-> 0,
   num_devices |-> 1]

DefaultEnv ==
  [version |-> None, global_rank_zero |-> TRUE, hydra_changed_cwd |-> FALSE,
   git_repo |-> TRUE, tb_next_version |-> 0, HAVE_STRAGGLER_DET |-> FALSE,
   HAVE_FT |-> FALSE, cuda_available |-> TRUE, local_rank |-> 0,
   nemo_testing |-> FALSE, file_handlers |-> {}, model_parallel |-> FALSE]

EmptyFs ==
  [ckpt_dir_exists |-> FALSE, ckpts |-> <<>>, log_dir_exists |-> FALSE,
   files |-> {}, dirs |-> {}, moved |-> {}]

NoLoc ==
  [log_dir |-> NoPath, exp_dir |-> NoPath, name |-> None, version |-> None,
   checkpoint_name |-> None]

\* ------------------------------------------------------------ error_checks
\* The exception error_checks raises, "" if it returns.
error_checks(t, c, e) ==
  IF e.hydra_changed_cwd THEN "ValueError"
  ELSE IF t.logger.present
          /\ (c.create_tensorboard_logger \/ c.create_wandb_logger
              \/ c.create_mlflow_logger)
       THEN "LoggerMisconfigurationError"
       ELSE ""

\* -------------------------------------------------------------- get_log_dir
LogDirResult(x, log_dir, exp_dir, name, version, env_version) ==
  [exc |-> x, log_dir |-> log_dir, exp_dir |-> exp_dir, name |-> name,
   version |-> version, env_version |-> env_version]

check_explicit_log_dir_KeepsName(t, explicit_log_dir, exp_dir, name, version, e) ==
  IF t.logger.present
  THEN LogDirResult("LoggerMisconfigurationError", NoPath, NoPath, None, None,
                    e.version)
  ELSE LogDirResult("", PathOf(explicit_log_dir), PathOf(explicit_log_dir),
                    name, "", e.version)
check_explicit_log_dir(t, explicit_log_dir, exp_dir, name, version, e) ==
  IF t.logger.present
  THEN LogDirResult("LoggerMisconfigurationError", NoPath, NoPath, None, None,
                    e.version)
  ELSE LogDirResult("", PathOf(explicit_log_dir), PathOf(explicit_log_dir),
                    "", "", e.version)

\* str(x) of an optional string
Str(x) == IF x = None THEN "None" ELSE x

DefaultExpDir == <<"<cwd>", "nemo_experiments">>

\* Path(_exp_dir) / Path(str(name)) / Path("" if version is None else str(version))
JoinLogDir_NoVersion(exp_path, name, version) == exp_path \o PathOf(Str(name))
JoinLogDir(exp_path, name, version) ==
  exp_path \o PathOf(Str(name)) \o PathOf(IF version = None THEN "" ELSE version)

\* line 1137: the version folder of a trainer that brings its own logger
LoggerVersion_Bare(t) == Str(t.logger.version)
LoggerVersion(t) == "version_" \o Str(t.logger.version)

\* version chosen at lines 1141-1155 when the trainer has no logger
ChooseVersion_ResumeIgnored(version, use_datetime_version, resume_if_exists, e) ==
  LET v0 == IF Truthy(version) THEN version ELSE e.version
  IN IF Truthy(v0) THEN [version |-> v0, env_version |-> e.version]
     ELSE IF e.global_rank_zero
          THEN LET v1 == IF use_datetime_version THEN "<datetime>"
                         ELSE "version_" \o ToString(e.tb_next_version)
               IN [version |-> v1, env_version |-> v1]
          ELSE [version |-> v0, env_version |-> e.version]
ChooseVersion(version, use_datetime_version, resume_if_exists, e) ==
  LET v0 == IF Truthy(version) THEN version ELSE e.version
  IN IF Truthy(v0) THEN [version |-> v0, env_version |-> e.version]
     ELSE IF resume_if_exists THEN [version |-> None, env_version |-> e.version]
     ELSE IF e.global_rank_zero
          THEN LET v1 == IF use_datetime_version THEN "<datetime>"
                         ELSE "version_" \o ToString(e.tb_next_version)
               IN [version |-> v1, env_version |-> v1]
          ELSE [version |-> v0, env_version |-> e.version]

get_log_dir(t, exp_dir, name, version, explicit_log_dir, use_datetime_version, resume_if_exists, e) ==
  IF Truthy(explicit_log_dir)
  THEN check_explicit_log_dir(t, explicit_log_dir, exp_dir, name, version, e)
  ELSE
    LET exp0 == IF exp_dir = None THEN DefaultExpDir ELSE PathOf(exp_dir)
        Misconfigured == LogDirResult("LoggerMisconfigurationError", NoPath,
                                      NoPath, None, None, e.version)
    IN IF t.logger.present
       THEN IF TruthyPath(t.logger.save_dir) /\ Truthy(exp_dir) THEN Misconfigured
            ELSE IF Truthy(name) THEN Misconfigured
            ELSE LET exp1 == IF TruthyPath(t.logger.save_dir)
                             THEN t.logger.save_dir ELSE exp0
                     n == t.logger.name
                     v == LoggerVersion(t)
                 IN LogDirResult("", JoinLogDir(exp1, n, v), exp1, n, v,
                                 e.version)
       ELSE LET n == IF Truthy(name) THEN name ELSE "default"
                cv == ChooseVersion(version, use_datetime_version,
                                    resume_if_exists, e)
            IN LogDirResult("", JoinLogDir(exp0, n, cv.version), exp0, n,
                            cv.version, cv.env_version)

\* ------------------------------------------------------------- check_resume
is_s3_url(dirpath) == dirpath = "s3://bucket/ckpts"
is_multistorageclient_url(dirpath) == dirpath = "msc://profile/ckpts"

is_checkpoint_unfinished(c) == c.unfinished

uninject_model_parallel_rank(c) == [c EXCEPT !.mp = ""]

IsFinished(c) == ~is_checkpoint_unfinished(c)
_filter_out_unfinished_checkpoints(checkpoint_paths) ==
  SelectSeq(checkpoint_paths, IsFinished)

\* keys ending in 'end.ckpt' / 'last.ckpt', directories named *end / *last
IsEndFile(c) == c.kind = "end" /\ ~c.dist
IsLastFile(c) == c.kind = "last" /\ ~c.dist
IsEndDist(c) == c.kind = "end" /\ c.dist
IsLastDist(c) == c.kind = "last" /\ c.dist
IsCkptFile(c) == ~c.dist

Found(x, exists, end, last) ==
  [exc |-> x, checkpoint_dir_exists |-> exists, end_checkpoints |-> end,
   last_checkpoints |-> last]

\* lines 916-928: an S3 dirpath
DiscoverS3(f) ==
  IF f.ckpt_dir_exists
  THEN Found("", TRUE, SelectSeq(f.ckpts, IsEndFile), SelectSeq(f.ckpts, IsLastFile))
  ELSE Found("", FALSE, <<>>, <<>>)

\* lines 929-939: a multistorageclient dirpath.  f.ckpts lists the keys in the
\* order sorted(reverse=True) leaves them.
DiscoverMsc(f) ==
  LET all_keys == SelectSeq(f.ckpts, IsCkptFile)
  IN IF all_keys # <<>>
     THEN Found("", TRUE, SelectSeq(all_keys, IsEndFile),
                SelectSeq(all_keys, IsLastFile))
     ELSE Found("", FALSE, <<>>, <<>>)

\* lines 940-978: a local checkpoint directory
DiscoverLocal(f) ==
  LET end_dist == SelectSeq(f.ckpts, IsEndDist)
      last_dist == SelectSeq(f.ckpts, IsLastDist)
      end0 == IF end_dist # <<>> THEN end_dist ELSE SelectSeq(f.ckpts, IsEndFile)
      end1 == _filter_out_unfinished_checkpoints(end0)
      last0 == IF last_dist # <<>> THEN last_dist
               ELSE SelectSeq(f.ckpts, IsLastFile)
      last1 == _filter_out_unfinished_checkpoints(last0)
  IN IF Len(end0) > 0 /\ Len(end1) = 0
     THEN Found("ValueError", f.ckpt_dir_exists, end1, <<>>)
     ELSE IF Len(last0) > 0 /\ Len(last1) = 0
          THEN Found("ValueError", f.ckpt_dir_exists, end1, last1)
          ELSE Found("", f.ckpt_dir_exists, end1, last1)

Discover(dirpath, f) ==
  IF is_s3_url(dirpath) THEN DiscoverS3(f)
  ELSE IF is_multistorageclient_url(dirpath) THEN DiscoverMsc(f)
  ELSE DiscoverLocal(f)

Chosen(x, checkpoint) == [exc |-> x, checkpoint |-> checkpoint]

LastMpTags == {"mp_rank", "tp_rank", "fsdp_shard"}

\* line 980: no checkpoint directory, or neither an end nor a last checkpoint
NoCheckpointFound_DirOnly(d) == ~d.checkpoint_dir_exists
NoCheckpointFound(d) ==
  ~d.checkpoint_dir_exists
  \/ (~(Len(d.end_checkpoints) > 0) /\ ~(Len(d.last_checkpoints) > 0))

\* line 996: an end checkpoint is looked at before any last checkpoint
EndFound_UnlessLast(d) ==
  Len(d.end_checkpoints) > 0 /\ ~(Len(d.last_checkpoints) > 0)
EndFound(d) == Len(d.end_checkpoints) > 0

\* line 1008: the first last checkpoint is one shard of a model-parallel save
IsShard(c) == c.mp \in LastMpTags

\* lines 980-1014: the checkpoint to resume from, given what was found.
\* Indexing an empty list raises IndexError.
SelectCheckpoint(checkpoint, d, resume_past_end, resume_ignore_no_checkpoint) ==
  IF NoCheckpointFound(d)
  THEN IF resume_ignore_no_checkpoint THEN Chosen("", checkpoint)
       ELSE Chosen("NotFoundError", checkpoint)
  ELSE IF EndFound(d)
  THEN IF resume_past_end
       THEN IF Len(d.end_checkpoints) > 1
            THEN IF d.end_checkpoints[1].mp = "mp_rank"
                 THEN Chosen("", d.end_checkpoints[1])
                 ELSE Chosen("ValueError", checkpoint)
            ELSE Chosen("", checkpoint)
       ELSE Chosen("ValueError", checkpoint)
  ELSE IF Len(d.last_checkpoints) > 1
  THEN IF IsShard(d.last_checkpoints[1])
       THEN Chosen("", uninject_model_parallel_rank(d.last_checkpoints[1]))
       ELSE Chosen("ValueError", checkpoint)
  ELSE IF Len(d.last_checkpoints) = 0 THEN Chosen("IndexError", checkpoint)
  ELSE Chosen("", d.last_checkpoints[1])

\* lines 901-1014
ResolveCheckpoint(resume_if_exists, resume_past_end, resume_ignore_no_checkpoint, dirpath, resume_from_checkpoint, f, e) ==
  LET checkpoint0 == resume_from_checkpoint
  IN IF resume_if_exists
        /\ (e.global_rank_zero
            \/ ~(is_s3_url(dirpath) /\ is_multistorageclient_url(dirpath)))
     THEN LET d == Discover(dirpath, f)
          IN IF d.exc # "" THEN Chosen(d.exc, checkpoint0)
             ELSE SelectCheckpoint(checkpoint0, d, resume_past_end,
                                   resume_ignore_no_checkpoint)
     ELSE Chosen("", checkpoint0)

\* lines 1021-1039: on global rank zero, old files of log_dir go to run_{int}
StartsWith(file, prefix) == file[1] = prefix
FilesToMove_AnyPrefix(f) == IF f.log_dir_exists THEN f.files ELSE {}
FilesToMove(f) ==
  IF f.log_dir_exists
  THEN {child \in f.files : ~StartsWith(child, "events.out.tfevents")}
  ELSE {}
RunCount(f) == Cardinality({fold \in f.dirs : StartsWith(fold, "run_")})

MoveOldFiles(f) ==
  LET files_to_move == FilesToMove(f)
      new_run_dir == RunDir(RunCount(f))
  IN IF files_to_move = {} THEN [exc |-> "", fs |-> f]
     ELSE IF new_run_dir \in f.dirs \/ new_run_dir \in f.files
          THEN [exc |-> "FileExistsError", fs |-> f]
          ELSE [exc |-> "",
                fs |-> [f EXCEPT !.dirs = @ \cup {new_run_dir},
                                 !.files = @ \ files_to_move,
                                 !.moved = @ \cup {<<new_run_dir, _file>> :
                                                     _file \in files_to_move}]]


\* -------------------------------------------------------- configure_loggers
AnyLogger(c) ==
  c.create_tensorboard_logger \/ c.create_wandb_logger \/ c.create_mlflow_logger
  \/ c.create_dllogger_logger \/ c.create_clearml_logger
  \/ c.create_neptune_logger

\* The exception configure_loggers raises, "" if it attaches the loggers.
configure_loggers(c) ==
  IF c.create_tensorboard_logger /\ c.summary_writer_has_log_dir THEN "ValueError"
  ELSE IF c.create_wandb_logger /\ ~c.wandb_has_name_or_project THEN "ValueError"
  ELSE IF c.create_neptune_logger /\ ~c.neptune_kwargs_complete THEN "ValueError"
  ELSE ""

\* the first logger of logger_list, as trainer.logger reports it
ConfiguredLogger(c, l) ==
  [present |-> TRUE, save_dir |-> l.exp_dir, name |-> c.name,
   version |-> c.version]

\* --------------------------------------------------- configure_checkpointing
HasModelCheckpoint_ExactClass(callbacks) ==
  \E i \in 1..Len(callbacks) : callbacks[i] = "ModelCheckpoint"
HasModelCheckpoint(callbacks) ==
  \E i \in 1..Len(callbacks) :
    callbacks[i] \in {"ModelCheckpoint", "NeMoModelCheckpoint"}

\* Path(p).parent and Path(p).name; Path("x").parent is the current directory
Parent(path) == IF Len(path) <= 1 THEN <<>> ELSE SubSeq(path, 1, Len(path) - 1)
LastName(path) == IF path = <<>> THEN "" ELSE path[Len(path)]

\* lines 1327-1344: params after the deprecated filepath is folded in and the
\* parameters left at None are filled
FillParams_Overwrites(params, log_dir, name) ==
  [params EXCEPT !.has_filepath = FALSE,
                 !.dirpath = log_dir \o <<"checkpoints">>,
                 !.filename = name \o "--{" \o Str(params.monitor) \o ":.4f}-{epoch}",
                 !.prefix = name]
FillParams(params, log_dir, name) ==
  LET folded ==
        IF params.has_filepath
        THEN IF params.filepath # NoPath
             THEN [params EXCEPT
                     !.dirpath = IF @ = NoPath THEN Parent(params.filepath) ELSE @,
                     !.filename = IF @ = None THEN LastName(params.filepath) ELSE @,
                     !.has_filepath = FALSE]
             ELSE [params EXCEPT !.has_filepath = FALSE]
        ELSE params
  IN [folded EXCEPT
        !.dirpath = IF @ = NoPath THEN log_dir \o <<"checkpoints">> ELSE @,
        !.filename = IF @ = None
                     THEN name \o "--{" \o Str(folded.monitor) \o ":.4f}-{epoch}"
                     ELSE @,
        !.prefix = IF @ = None THEN name ELSE @]

\* lines 1345-1358 and 1366: what the filled params make configure_checkpointing
\* raise, "" if nothing ("val" in None is a TypeError)
CheckParams(params, e) ==
  IF params.always_save_nemo /\ e.model_parallel THEN "LoggerMisconfigurationError"
  ELSE IF params.monitor = None THEN "TypeError"
  ELSE ""

\* [exc, callbacks, params]: the trainer's callbacks and the checkpoint
\* parameters after configure_checkpointing
configure_checkpointing(callbacks, log_dir, name, params, create_preemption_callback, e) ==
  IF HasModelCheckpoint(callbacks)
  THEN [exc |-> "CheckpointMisconfigurationError", callbacks |-> callbacks,
        params |-> params]
  ELSE LET filled == FillParams(params, log_dir, name)
       IN IF CheckParams(filled, e) # ""
          THEN [exc |-> CheckParams(filled, e), callbacks |-> callbacks,
                params |-> filled]
          ELSE [exc |-> "",
                callbacks |-> IF create_preemption_callback /\ e.cuda_available
                              THEN callbacks \o <<"NeMoModelCheckpoint", "PreemptionCallback">>
                              ELSE Append(callbacks, "NeMoModelCheckpoint"),
                params |-> filled]

\* ------------------------------------------------------- per-rank log file
\* line 552
GlobalRank(t, e) == t.node_rank * t.num_devices + e.local_rank

\* line 640: the name of the log file under log_dir
LogFile(global_rank, local_rank) ==
  <<"nemo_log_globalrank-" \o ToString(global_rank) \o "_localrank-"
      \o ToString(local_rank) \o ".txt", "">>

\* lines 641-649: whether this rank gets a file handler
AddsFileHandler_IgnoresTesting(c, global_rank, e) ==
  IF c.log_local_rank_0_only THEN e.local_rank = 0
  ELSE IF c.log_global_rank_0_only THEN global_rank = 0
  ELSE TRUE
AddsFileHandler(c, global_rank, e) ==
  IF c.log_local_rank_0_only /\ ~e.nemo_testing THEN e.local_rank = 0
  ELSE IF c.log_global_rank_0_only /\ ~e.nemo_testing THEN global_rank = 0
  ELSE TRUE

\* ------------------------------------------------------------------ actions
Raise(x) == /\ pc' = "raised"
            /\ exc' = x

\* exp_manager lines 551-573
Entry ==
  /\ UNCHANGED factory
  /\ pc = "start"
  /\ IF cfg.kind = "none" \/ trainer.fast_dev_run
     THEN pc' = "returned" /\ ret' = NoPath /\ exc' = exc
     ELSE IF cfg.kind # "dict"
          THEN Raise("ValueError") /\ ret' = ret
          ELSE pc' = "error_checks" /\ ret' = ret /\ exc' = exc
  /\ UNCHANGED <<trainer, cfg, env, fs, loc>>

\* exp_manager line 576
ErrorChecks ==
  /\ UNCHANGED factory
  /\ pc = "error_checks"
  /\ LET x == error_checks(trainer, cfg, env)
     IN IF x # "" THEN Raise(x) ELSE pc' = "get_log_dir" /\ exc' = exc
  /\ UNCHANGED <<trainer, cfg, env, fs, loc, ret>>

\* exp_manager lines 578-586
GetLogDir ==
  /\ UNCHANGED factory
  /\ pc = "get_log_dir"
  /\ LET r == get_log_dir(trainer, cfg.exp_dir, cfg.name, cfg.version,
                          cfg.explicit_log_dir, cfg.use_datetime_version,
                          cfg.resume_if_exists, env)
     IN IF r.exc # ""
        THEN Raise(r.exc) /\ UNCHANGED <<loc, env>>
        ELSE /\ pc' = "check_resume"
             /\ exc' = exc
             /\ loc' = [loc EXCEPT !.log_dir = r.log_dir, !.exp_dir = r.exp_dir,
                                   !.name = r.name, !.version = r.version]
             /\ env' = [env EXCEPT !.version = r.env_version]
  /\ UNCHANGED <<trainer, cfg, fs, ret>>

\* exp_manager lines 588-596: check_resume, lines 886-1039
CheckResume ==
  /\ UNCHANGED factory
  /\ pc = "check_resume"
  /\ IF loc.log_dir = NoPath
     THEN Raise("ValueError") /\ UNCHANGED <<trainer, fs>>
     ELSE
       LET r == ResolveCheckpoint(cfg.resume_if_exists, cfg.resume_past_end,
                                  cfg.resume_ignore_no_checkpoint, cfg.dirpath,
                                  cfg.resume_from_checkpoint, fs, env)
           m == MoveOldFiles(fs)
       IN IF r.exc # ""
          THEN Raise(r.exc) /\ UNCHANGED <<trainer, fs>>
          ELSE /\ trainer' = IF r.checkpoint # NoCkpt
                             THEN [trainer EXCEPT !.ckpt_path = r.checkpoint]
                             ELSE trainer
               /\ IF env.global_rank_zero
                  THEN IF m.exc # ""
                       THEN Raise(m.exc) /\ fs' = fs
                       ELSE pc' = "setup" /\ exc' = exc /\ fs' = m.fs
                  ELSE pc' = "setup" /\ exc' = exc /\ fs' = fs
  /\ UNCHANGED <<cfg, env, loc, ret>>

\* exp_manager lines 598-649
Setup ==
  /\ UNCHANGED factory
  /\ pc = "setup"
  /\ loc' = [loc EXCEPT !.checkpoint_name =
                          IF Falsy(loc.name)
                          THEN (IF Truthy(cfg.name) THEN cfg.name ELSE "default")
                          ELSE loc.name]
  /\ cfg' = [cfg EXCEPT !.name = loc.name, !.version = loc.version]
  /\ fs' = [fs EXCEPT !.log_dir_exists = TRUE]
  /\ trainer' = [trainer EXCEPT !.default_root_dir = loc.log_dir]
  /\ IF cfg.log_local_rank_0_only /\ cfg.log_global_rank_0_only
     THEN Raise("ValueError") /\ env' = env
     ELSE /\ pc' = "configure_loggers"
          /\ exc' = exc
          /\ env' = IF AddsFileHandler(cfg, GlobalRank(trainer, env), env)
                    THEN [env EXCEPT !.file_handlers =
                            @ \cup {LogFile(GlobalRank(trainer, env),
                                            env.local_rank)}]
                    ELSE env
  /\ ret' = ret

\* exp_manager lines 653-680
ConfigureLoggers ==
  /\ UNCHANGED factory
  /\ pc = "configure_loggers"
  /\ IF AnyLogger(cfg)
     THEN LET x == configure_loggers(cfg)
          IN IF x # "" THEN Raise(x) /\ trainer' = trainer
             ELSE /\ pc' = "configure_checkpointing"
                  /\ exc' = exc
                  /\ trainer' = [trainer EXCEPT !.logger = ConfiguredLogger(cfg, loc)]
     ELSE pc' = "configure_checkpointing" /\ exc' = exc /\ trainer' = trainer
  /\ UNCHANGED <<cfg, env, fs, loc, ret>>

\* exp_manager lines 682-711
ConfigureCheckpointing ==
  /\ UNCHANGED factory
  /\ pc = "configure_checkpointing"
  /\ LET timed == IF cfg.log_delta_step_timing
                  THEN <<"DeltaTimingCallback">> \o trainer.callbacks
                  ELSE IF cfg.log_step_timing
                       THEN <<"TimingCallback">> \o trainer.callbacks
                       ELSE trainer.callbacks
         r == configure_checkpointing(timed, loc.log_dir, loc.checkpoint_name,
                                      cfg.checkpoint_callback_params,
                                      cfg.create_preemption_callback, env)
     IN IF cfg.create_checkpoint_callback
        THEN /\ trainer' = [trainer EXCEPT !.callbacks = r.callbacks]
             /\ cfg' = [cfg EXCEPT !.checkpoint_callback_params = r.params]
             /\ IF r.exc # "" THEN Raise(r.exc)
                ELSE pc' = "finish" /\ exc' = exc
        ELSE /\ trainer' = [trainer EXCEPT !.callbacks = timed]
             /\ cfg' = cfg
             /\ pc' = "finish" /\ exc' = exc
  /\ UNCHANGED <<env, fs, loc, ret>>

\* files exp_manager writes into log_dir on global rank zero, lines 777-798
RankZeroFiles(e) ==
  {CmdArgsFile, ErrLogFile, PlLogFile} \cup (IF e.git_repo THEN {GitInfoFile} ELSE {})

\* the value exp_manager returns at line 807
ReturnValue_ExpDir(l) == l.exp_dir
ReturnValue(l) == l.log_dir

\* exp_manager lines 739-807
Finish ==
  /\ UNCHANGED factory
  /\ pc = "finish"
  /\ IF cfg.create_straggler_detection_callback /\ ~env.HAVE_STRAGGLER_DET
     THEN Raise("ValueError") /\ UNCHANGED <<trainer, fs, ret>>
     ELSE IF cfg.create_fault_tolerance_callback /\ ~env.HAVE_FT
     THEN /\ Raise("ValueError")
          /\ trainer' = IF cfg.create_straggler_detection_callback
                        THEN [trainer EXCEPT !.callbacks =
                                Append(@, "StragglerDetectionCallback")]
                        ELSE trainer
          /\ UNCHANGED <<fs, ret>>
     ELSE /\ trainer' =
               [trainer EXCEPT !.callbacks =
                  @ \o (IF cfg.create_straggler_detection_callback
                        THEN <<"StragglerDetectionCallback">> ELSE <<>>)
                    \o (IF cfg.create_fault_tolerance_callback
                        THEN <<"FaultToleranceCallback">> ELSE <<>>)]
          /\ fs' = IF env.global_rank_zero
                   THEN [fs EXCEPT !.files = @ \cup RankZeroFiles(env)]
                   ELSE fs
          /\ ret' = ReturnValue(loc)
          /\ pc' = "returned"
          /\ exc' = exc
  /\ UNCHANGED <<cfg, env, loc>>

Next ==
  \/ Entry
  \/ ErrorChecks
  \/ GetLogDir
  \/ CheckResume
  \/ Setup
  \/ ConfigureLoggers
  \/ ConfigureCheckpointing
  \/ Finish


\* ------------------------------------------------- recipes/llama31_70b.py
\* A string that the recipes inspect is a sequence of characters; an Optional
\* argument is <<>> (None) or <<value>>.
NoScheme == <<"<None>">>

\* str.lower() on the letters the scheme names are written with
LowerChar(c) ==
  CASE c = "L" -> "l" [] c = "O" -> "o" [] c = "R" -> "r" [] c = "A" -> "a"
    [] c = "D" -> "d" [] c = "N" -> "n" [] c = "E" -> "e" [] OTHER -> c
Lower_CaseKept(str) == str
Lower(str) == [i \in 1..Len(str) |-> LowerChar(str[i])]

\* lines 302 and 310: peft_scheme is None or peft_scheme.lower() == 'none'
SchemeIsNone(peft_scheme) ==
  peft_scheme = NoScheme \/ Lower(peft_scheme) = <<"n", "o", "n", "e">>
\* lines 304 and 314: peft_scheme.lower() in ['lora', 'dora']
SchemeIsPeft_AnyString(peft_scheme) == peft_scheme # NoScheme
SchemeIsPeft(peft_scheme) ==
  Lower(peft_scheme) \in {<<"l", "o", "r", "a">>, <<"d", "o", "r", "a">>}

\* PEFT_STR2CLS[...]: the adapter class of a scheme name
PEFT_STR2CLS(key) ==
  IF key = <<"l", "o", "r", "a">> THEN "LoRA"
  ELSE IF key = <<"d", "o", "r", "a">> THEN "DoRA"
  ELSE "KeyError"

NoPeft == [cls |-> None, dim |-> 0, alpha |-> 0, target_modules |-> <<>>]

NoError == [cls |-> "", msg |-> "", arg |-> <<>>]

\* lines 108-146: trainer(...)
llama31_70b_trainer_Swapped(tensor_parallelism, pipeline_parallelism, virtual_pipeline_parallelism, context_parallelism, sequence_parallelism, num_nodes, num_gpus_per_node, callbacks) ==
  [num_nodes |-> <<num_gpus_per_node>>,
   devices |-> num_nodes,
   callbacks |-> callbacks,
   grad_reduce_in_fp32 |-> TRUE,
   strategy |-> [tensor_model_parallel_size |-> pipeline_parallelism,
                 pipeline_model_parallel_size |-> tensor_parallelism,
                 virtual_pipeline_model_parallel_size |-> virtual_pipeline_parallelism,
                 context_parallel_size |-> context_parallelism,
                 sequence_parallel |-> sequence_parallelism,
                 ddp_grad_reduce_in_fp32 |-> TRUE]]
llama31_70b_trainer(tensor_parallelism, pipeline_parallelism, virtual_pipeline_parallelism, context_parallelism, sequence_parallelism, num_nodes, num_gpus_per_node, callbacks) ==
  [num_nodes |-> <<num_nodes>>,
   devices |-> num_gpus_per_node,
   callbacks |-> callbacks,
   grad_reduce_in_fp32 |-> TRUE,
   strategy |-> [tensor_model_parallel_size |-> tensor_parallelism,
                 pipeline_model_parallel_size |-> pipeline_parallelism,
                 virtual_pipeline_model_parallel_size |-> virtual_pipeline_parallelism,
                 context_parallel_size |-> context_parallelism,
                 sequence_parallel |-> sequence_parallelism,
                 ddp_grad_reduce_in_fp32 |-> TRUE]]

\* the parts of a recipe besides its trainer, as pretrain_recipe fills them
\* at lines 195-197
PretrainParts ==
  [optim |-> [lr |-> "3e-4", use_distributed_optimizer |-> TRUE],
   peft |-> NoPeft,
   model |-> [seq_length |-> 8192, cross_entropy_loss_fusion |-> TRUE],
   data |-> [seq_length |-> 8192, pad_to_max_length |-> FALSE,
             packed_sequence_size |-> <<>>]]

Recipe(trainer_config, parts) ==
  [trainer |-> trainer_config, optim |-> parts.optim, peft |-> parts.peft,
   model |-> parts.model, data |-> parts.data]

\* lines 231-243
pretrain_performance_optimizations(recipe) ==
  [recipe EXCEPT !.trainer.callbacks = Append(@, "MegatronCommOverlapCallback")]

\* lines 187-204
pretrain_recipe(num_nodes, num_gpus_per_node, performance_mode) ==
  LET recipe == Recipe(llama31_70b_trainer(4, 4, <<5>>, 2, TRUE, num_nodes,
                                           num_gpus_per_node,
                                           <<"TimingCallback">>),
                       PretrainParts)
  IN IF performance_mode THEN pretrain_performance_optimizations(recipe)
     ELSE recipe

\* default_finetune_recipe(model(), "meta-llama/Llama-3.1-70B", dir, name,
\* num_nodes, num_gpus_per_node, packed_sequence): the recipe it builds has
\* no peft; the strategy sizes and optimizer flag it starts from are `base`.
default_finetune_recipe(base, num_nodes, num_gpus_per_node, packed_sequence) ==
  [trainer |-> [num_nodes |-> num_nodes,
                devices |-> num_gpus_per_node,
                callbacks |-> <<>>,
                grad_reduce_in_fp32 |-> TRUE,
                strategy |-> [tensor_model_parallel_size |-> base.tp,
                              pipeline_model_parallel_size |-> base.pp,
                              virtual_pipeline_model_parallel_size |-> <<>>,
                              context_parallel_size |-> 1,
                              sequence_parallel |-> FALSE,
                              ddp_grad_reduce_in_fp32 |-> TRUE]],
   optim |-> [lr |-> "<default lr>", use_distributed_optimizer |-> base.udo],
   peft |-> NoPeft,
   model |-> [seq_length |-> 8192, cross_entropy_loss_fusion |-> TRUE],
   data |-> [seq_length |-> 2048, pad_to_max_length |-> FALSE,
             packed_sequence_size |-> <<>>]]

\* lines 364-405
finetune_performance_optimizations(recipe, peft_scheme) ==
  LET tuned ==
        IF SchemeIsNone(peft_scheme)
        THEN [recipe EXCEPT
                !.trainer.strategy.tensor_model_parallel_size = 4,
                !.trainer.strategy.pipeline_model_parallel_size = 4,
                !.trainer.strategy.virtual_pipeline_model_parallel_size = <<5>>,
                !.trainer.grad_reduce_in_fp32 = FALSE,
                !.trainer.strategy.ddp_grad_reduce_in_fp32 = FALSE,
                !.trainer.callbacks = Append(@, "MegatronCommOverlapCallback")]
        ELSE [recipe EXCEPT
                !.trainer.strategy.tensor_model_parallel_size = 2,
                !.trainer.strategy.pipeline_model_parallel_size = 4,
                !.trainer.strategy.virtual_pipeline_model_parallel_size = <<5>>,
                !.peft.target_modules = <<"linear_qkv">>]
  IN [tuned EXCEPT !.trainer.strategy.sequence_parallel = TRUE,
                   !.trainer.callbacks =
                      @ \o <<"TimingCallback", "GarbageCollectionCallback">>]

Outcome(error, recipe) == [error |-> error, recipe |-> recipe]

\* lines 294-338
finetune_recipe(base, num_nodes, num_gpus_per_node, peft_scheme, seq_length, packed_sequence, performance_mode) ==
  LET packed == IF packed_sequence = <<>> THEN performance_mode
                ELSE packed_sequence[1]
      seq == IF seq_length = <<>> THEN (IF packed THEN 4096 ELSE 2048)
             ELSE seq_length[1]
      nodes == IF num_nodes = <<>>
               THEN IF SchemeIsNone(peft_scheme) THEN <<4>>
                    ELSE IF SchemeIsPeft(peft_scheme) THEN <<1>>
                    ELSE num_nodes
               ELSE num_nodes
      recipe0 == default_finetune_recipe(base, nodes, num_gpus_per_node, packed)
      recipe1 ==
        IF SchemeIsNone(peft_scheme)
        THEN [recipe0 EXCEPT
                !.trainer.strategy.tensor_model_parallel_size = 8,
                !.trainer.strategy.pipeline_model_parallel_size = 4,
                !.optim.lr = "5e-6"]
        ELSE [recipe0 EXCEPT
                !.peft = [cls |-> PEFT_STR2CLS(Lower(peft_scheme)), dim |-> 16,
                          alpha |-> 32, target_modules |-> <<>>],
                !.optim.use_distributed_optimizer = FALSE,
                !.model.cross_entropy_loss_fusion = FALSE,
                !.trainer.strategy.tensor_model_parallel_size = 8,
                !.optim.lr = "1e-4"]
      recipe2 ==
        [recipe1 EXCEPT
           !.model.seq_length = seq,
           !.data.seq_length = seq,
           !.data.pad_to_max_length = IF packed THEN TRUE ELSE @,
           !.data.packed_sequence_size = IF packed THEN <<seq>> ELSE @]
  IN IF ~SchemeIsNone(peft_scheme) /\ ~SchemeIsPeft(peft_scheme)
     THEN Outcome([cls |-> "ValueError", msg |-> "Unrecognized peft scheme: ",
                   arg |-> peft_scheme], recipe0)
     ELSE IF ~SchemeIsNone(peft_scheme)
             /\ PEFT_STR2CLS(Lower(peft_scheme)) = "KeyError"
     THEN Outcome([cls |-> "KeyError", msg |-> "", arg |-> Lower(peft_scheme)],
                  recipe0)
     ELSE IF performance_mode
          THEN Outcome(NoError,
                       finetune_performance_optimizations(recipe2, peft_scheme))
          ELSE Outcome(NoError, recipe2)

\* no recipe factory is being called
IdleFactory == [fn |-> "", pc |-> "idle"]

\* the three factories as one step each: factory.pc goes from "call" to
\* "returned" (result = <<the recipe>>) or "raised" (result stays <<>>)
Return(value) == factory' = [factory EXCEPT !.pc = "returned", !.result = <<value>>]
Throw(error) == factory' = [factory EXCEPT !.pc = "raised", !.error = error]

CallTrainer ==
  /\ factory.pc = "call"
  /\ factory.fn = "trainer"
  /\ LET a == factory.args
     IN Return(Recipe(llama31_70b_trainer(a.tensor_parallelism,
                                          a.pipeline_parallelism,
                                          a.virtual_pipeline_parallelism,
                                          a.context_parallelism,
                                          a.sequence_parallelism, a.num_nodes,
                                          a.num_gpus_per_node, <<>>),
                      PretrainParts))
  /\ UNCHANGED <<pc, trainer, cfg, env, fs, loc, ret, exc>>

CallPretrainRecipe ==
  /\ factory.pc = "call"
  /\ factory.fn = "pretrain_recipe"
  /\ LET a == factory.args
     IN Return(pretrain_recipe(a.num_nodes, a.num_gpus_per_node,
                               a.performance_mode))
  /\ UNCHANGED <<pc, trainer, cfg, env, fs, loc, ret, exc>>

CallFinetuneRecipe ==
  /\ factory.pc = "call"
  /\ factory.fn = "finetune_recipe"
  /\ LET a == factory.args
         o == finetune_recipe(a.base, a.num_nodes, a.num_gpus_per_node,
                              a.peft_scheme, a.seq_length, a.packed_sequence,
                              a.performance_mode)
     IN IF o.error = NoError THEN Return(o.recipe) ELSE Throw(o.error)
  /\ UNCHANGED <<pc, trainer, cfg, env, fs, loc, ret, exc>>

\* ----------------------------------------------------------- initial states
\* What the discovery can find: up to MaxCkpts checkpoints drawn from `from`.
Listings(from) == UNION {[1..n -> from] : n \in 0..MaxCkpts}

DirPaths == {None, "ckpt_dir", "s3://bucket/ckpts", "msc://profile/ckpts"}

\* Object stores hold keys, not directories.
CkptsFor(dirpath) ==
  IF is_s3_url(dirpath) \/ is_multistorageclient_url(dirpath)
  THEN {c \in FoundCkpts : ~c.dist}
  ELSE FoundCkpts

\* The log_dir earlier runs of exp_manager leave behind: run_0 .. run_{k-1},
\* the checkpoints directory, and files written since the last move.
LogDirFiles == {EventsFile, CmdArgsFile, GitInfoFile, ErrLogFile, PlLogFile}
RunDirs(k) == {RunDir(i) : i \in 0..(k - 1)}

TypeOK ==
  /\ pc \in {"start", "error_checks", "get_log_dir", "check_resume", "setup",
             "configure_loggers", "configure_checkpointing", "finish",
             "returned", "raised", "idle"}
  /\ factory.pc \in {"idle", "call", "returned", "raised"}
  /\ exc \in {"", "ValueError", "NotFoundError", "LoggerMisconfigurationError",
              "CheckpointMisconfigurationError", "FileExistsError", "IndexError",
              "TypeError"}

InitCommon ==
  /\ factory = IdleFactory
  /\ pc = "start"
  /\ loc = NoLoc
  /\ ret = NoPath
  /\ exc = ""

\* check_resume as exp_manager calls it at line 588, log_dir resolved: the
\* resume options against what the checkpoint directory holds.
ResumeLoc ==
  [NoLoc EXCEPT !.log_dir = DefaultExpDir \o <<"default">>,
                !.exp_dir = DefaultExpDir, !.name = "default"]

InitResume ==
  /\ factory = IdleFactory
  /\ pc = "check_resume"
  /\ loc = ResumeLoc
  /\ ret = NoPath
  /\ exc = ""
  /\ trainer = DefaultTrainer
  /\ env = DefaultEnv
  /\ \E rie \in BOOLEAN, rpe \in BOOLEAN, ign \in BOOLEAN,
        rfc \in {NoCkpt, GivenCkpt}, dp \in DirPaths :
       /\ cfg = [DefaultCfg EXCEPT !.resume_if_exists = rie,
                                   !.resume_past_end = rpe,
                                   !.resume_ignore_no_checkpoint = ign,
                                   !.resume_from_checkpoint = rfc,
                                   !.dirpath = dp,
                                   !.checkpoint_callback_params.dirpath =
                                      IF dp = None THEN NoPath ELSE <<dp>>]
       /\ \E l \in Listings(CkptsFor(dp)), ex \in BOOLEAN :
            /\ (l # <<>> => ex)
            /\ (~rie => Len(l) <= 1)
            /\ fs = [EmptyFs EXCEPT !.ckpt_dir_exists = ex, !.ckpts = l,
                                    !.log_dir_exists = TRUE,
                                    !.files = {CmdArgsFile, EventsFile},
                                    !.dirs = {CkptSubdir}]

SpecResume == InitResume /\ [][CheckResume]_vars

\* check_resume on global rank zero and elsewhere, against the log_dir that
\* earlier runs left behind.
InitMove ==
  /\ factory = IdleFactory
  /\ pc = "check_resume"
  /\ loc = ResumeLoc
  /\ ret = NoPath
  /\ exc = ""
  /\ trainer = DefaultTrainer
  /\ \E rz \in BOOLEAN : env = [DefaultEnv EXCEPT !.global_rank_zero = rz]
  /\ \E rie \in BOOLEAN, rfc \in {NoCkpt, GivenCkpt} :
       cfg = [DefaultCfg EXCEPT !.resume_if_exists = rie,
                                !.resume_ignore_no_checkpoint = TRUE,
                                !.resume_from_checkpoint = rfc]
  /\ \E l \in {<<>>, <<[src |-> "found", kind |-> "last", dist |-> FALSE,
                       unfinished |-> FALSE, mp |-> ""]>>},
        present \in BOOLEAN, files \in SUBSET LogDirFiles, k \in 0..MaxRuns :
       /\ (~present => files = {} /\ k = 0 /\ l = <<>>)
       /\ fs = [ckpt_dir_exists |-> l # <<>>,
                ckpts |-> l,
                log_dir_exists |-> present,
                files |-> files,
                dirs |-> RunDirs(k) \cup (IF l # <<>> THEN {CkptSubdir} ELSE {}),
                moved |-> {<<RunDir(i), CmdArgsFile>> : i \in 0..(k - 1)}]

SpecMove == InitMove /\ [][CheckResume]_vars

\* A call of exp_manager: the trainer's logger and run mode against the
\* logger switches of cfg.
InitEntry ==
  /\ InitCommon
  /\ fs = EmptyFs
  /\ \E lg \in {NoLogger} \cup SomeLoggers, fdr \in BOOLEAN :
       trainer = [DefaultTrainer EXCEPT !.logger = lg, !.fast_dev_run = fdr]
  /\ \E hy \in BOOLEAN : env = [DefaultEnv EXCEPT !.hydra_changed_cwd = hy]
  /\ \E kind \in {"none", "dict", "other"}, tb \in BOOLEAN, wb \in BOOLEAN,
        ml \in BOOLEAN, dl \in BOOLEAN, lo \in BOOLEAN, go \in BOOLEAN :
       cfg = [DefaultCfg EXCEPT !.kind = kind,
                                !.create_tensorboard_logger = tb,
                                !.create_wandb_logger = wb,
                                !.wandb_has_name_or_project = TRUE,
                                !.create_mlflow_logger = ml,
                                !.create_dllogger_logger = dl,
                                !.log_local_rank_0_only = lo,
                                !.log_global_rank_0_only = go]

\* A call of exp_manager: the options that name the log directory.
InitLogDir ==
  /\ InitCommon
  /\ fs = EmptyFs
  /\ \E lg \in {NoLogger} \cup SomeLoggers :
       trainer = [DefaultTrainer EXCEPT !.logger = lg]
  /\ \E ev \in {None, "", "env_version"}, rz \in BOOLEAN :
       env = [DefaultEnv EXCEPT !.version = ev, !.global_rank_zero = rz]
  /\ \E eld \in {None, "explicit_dir"}, ed \in {None, "exp_dir"},
        nm \in {None, "", "exp_name"}, vs \in {None, "", "cfg_version"},
        dt \in BOOLEAN, rie \in BOOLEAN, tb \in BOOLEAN :
       cfg = [DefaultCfg EXCEPT !.explicit_log_dir = eld,
                                !.exp_dir = ed,
                                !.name = nm,
                                !.version = vs,
                                !.use_datetime_version = dt,
                                !.resume_if_exists = rie,
                                !.resume_ignore_no_checkpoint = TRUE,
                                !.create_tensorboard_logger = tb]

\* A call of exp_manager on each rank of a job: the rank of the process
\* against the options that limit the per-rank log files.
InitRanks ==
  /\ InitCommon
  /\ fs = EmptyFs
  /\ \E nr \in 0..MaxNodeRank, nd \in 1..MaxDevices :
       /\ trainer = [DefaultTrainer EXCEPT !.node_rank = nr, !.num_devices = nd]
       /\ \E lr \in 0..(nd - 1), nt \in BOOLEAN :
            env = [DefaultEnv EXCEPT !.local_rank = lr, !.nemo_testing = nt,
                                     !.global_rank_zero = (nr = 0 /\ lr = 0)]
  /\ \E lo \in BOOLEAN, go \in BOOLEAN :
       cfg = [DefaultCfg EXCEPT !.log_local_rank_0_only = lo,
                                !.log_global_rank_0_only = go]

\* A call of exp_manager: the checkpoint parameters the caller set against
\* those configure_checkpointing fills.
ParamsChoices ==
  {[has_filepath |-> hf, filepath |-> fp, dirpath |-> dp, filename |-> fn,
    prefix |-> px, monitor |-> mo, always_save_nemo |-> an] :
     hf \in BOOLEAN, fp \in {NoPath, <<"old_dir", "old_name">>, <<"old_name">>},
     dp \in {NoPath, <<"ckpt_dir">>}, fn \in {None, "", "user_file"},
     px \in {None, "user_prefix"}, mo \in {None, "val_loss", "step"},
     an \in BOOLEAN}

InitParams ==
  /\ InitCommon
  /\ fs = EmptyFs
  /\ \E cb \in {<<>>, <<"ModelCheckpoint">>} :
       trainer = [DefaultTrainer EXCEPT !.callbacks = cb]
  /\ \E mp \in BOOLEAN : env = [DefaultEnv EXCEPT !.model_parallel = mp]
  /\ \E params \in ParamsChoices, nm \in {None, "exp_name"} :
       /\ ~params.has_filepath => params.filepath = NoPath
       /\ cfg = [DefaultCfg EXCEPT
                   !.name = nm,
                   !.checkpoint_callback_params = params,
                   !.dirpath = IF params.dirpath = NoPath THEN None
                               ELSE params.dirpath[1]]

Init == InitEntry \/ InitLogDir \/ InitRanks \/ InitParams

Spec == Init /\ [][Next]_vars

\* exp_manager called again on the same trainer, in the same process: the
\* trainer keeps its logger, callbacks and ckpt_path, the environment keeps
\* the version variable, and the new call resolves either the log_dir of the
\* call before or one that does not exist yet.
CallCfgs ==
  {[DefaultCfg EXCEPT !.create_tensorboard_logger = tb,
                      !.log_step_timing = st,
                      !.create_preemption_callback = pr,
                      !.name = nm] :
     tb \in BOOLEAN, st \in BOOLEAN, pr \in BOOLEAN, nm \in {None, "exp_name"}}

CallAgain ==
  /\ UNCHANGED factory
  /\ pc \in {"returned", "raised"}
  /\ Len(trainer.callbacks) < MaxCallbacks
  /\ pc' = "start"
  /\ loc' = NoLoc
  /\ ret' = NoPath
  /\ exc' = ""
  /\ cfg' \in CallCfgs
  /\ fs' \in {fs, EmptyFs}
  /\ UNCHANGED <<trainer, env>>

InitCalls ==
  /\ InitCommon
  /\ fs = EmptyFs
  /\ cfg \in CallCfgs
  /\ \E cb \in {<<>>, <<"ModelCheckpoint">>} :
       trainer = [DefaultTrainer EXCEPT !.callbacks = cb]
  /\ \E rz \in BOOLEAN, cuda \in BOOLEAN :
       env = [DefaultEnv EXCEPT !.global_rank_zero = rz, !.cuda_available = cuda]

NextCalls ==
  \/ Next
  \/ CallAgain

SpecCalls == InitCalls /\ [][NextCalls]_vars

\* Calls of the recipe factories: the scheme names in every mix of upper and
\* lower case, strings that are no scheme name, and the cluster and
\* parallelism arguments.
UpperChar(c) ==
  CASE c = "l" -> "L" [] c = "o" -> "O" [] c = "r" -> "R" [] c = "a" -> "A"
    [] c = "d" -> "D" [] c = "n" -> "N" [] c = "e" -> "E" [] OTHER -> c
CaseVariants(word) ==
  {[i \in 1..Len(word) |-> IF i \in upper THEN UpperChar(word[i]) ELSE word[i]] :
     upper \in SUBSET (1..Len(word))}

SchemeNames == {<<"l", "o", "r", "a">>, <<"d", "o", "r", "a">>, <<"n", "o", "n", "e">>}
OtherStrings ==
  {<<>>, <<"l", "o", "r">>, <<"l", "o", "r", "a", "s">>, <<"q", "l", "o", "r", "a">>,
   <<"n", "o", "n", "e", " ">>, <<"N", "o", "n", "e", "_">>, <<"d", "o", "r", "A", "0">>,
   <<"i", "n", "v", "a", "l", "i", "d", "_", "s", "c", "h", "e", "m", "e">>}
PeftSchemes ==
  {NoScheme} \cup UNION {CaseVariants(w) : w \in SchemeNames} \cup OtherStrings

Optional(values) == {<<>>} \cup {<<v>> : v \in values}

IdleExpManager ==
  /\ pc = "idle"
  /\ trainer = DefaultTrainer
  /\ cfg = DefaultCfg
  /\ env = DefaultEnv
  /\ fs = EmptyFs
  /\ loc = NoLoc
  /\ ret = NoPath
  /\ exc = ""

FactoryCall(fn, args) ==
  [fn |-> fn, pc |-> "call", args |-> args, result |-> <<>>, error |-> NoError]

BaseRecipes == [tp : 1..MaxParallel, pp : 1..MaxParallel, udo : BOOLEAN]

InitFinetune ==
  \E base \in BaseRecipes, nn \in Optional(1..MaxNodes), ng \in 1..MaxGpus,
     ps \in PeftSchemes, sl \in Optional({1024}), pk \in Optional(BOOLEAN),
     pm \in BOOLEAN :
    factory = FactoryCall("finetune_recipe",
                          [base |-> base, num_nodes |-> nn,
                           num_gpus_per_node |-> ng, peft_scheme |-> ps,
                           seq_length |-> sl, packed_sequence |-> pk,
                           performance_mode |-> pm])

InitPretrain ==
  \E nn \in 1..MaxNodes, ng \in 1..MaxGpus, pm \in BOOLEAN :
    factory = FactoryCall("pretrain_recipe",
                          [num_nodes |-> nn, num_gpus_per_node |-> ng,
                           performance_mode |-> pm])

InitTrainer ==
  \E tp \in 1..MaxParallel, pp \in 1..MaxParallel,
     vp \in Optional(1..MaxParallel), cp \in 1..MaxParallel, sp \in BOOLEAN,
     nn \in 1..MaxNodes, ng \in 1..MaxGpus :
    factory = FactoryCall("trainer",
                          [tensor_parallelism |-> tp, pipeline_parallelism |-> pp,
                           virtual_pipeline_parallelism |-> vp,
                           context_parallelism |-> cp,
                           sequence_parallelism |-> sp, num_nodes |-> nn,
                           num_gpus_per_node |-> ng])

InitRecipes ==
  /\ IdleExpManager
  /\ (InitFinetune \/ InitPretrain \/ InitTrainer)

NextRecipes ==
  \/ CallTrainer
  \/ CallPretrainRecipe
  \/ CallFinetuneRecipe

SpecRecipes == InitRecipes /\ [][NextRecipes]_vars

\* ------------------------------------------------------------------ claims
\* Vocabulary of the claims about check_resume (SpecResume, SpecMove): the
\* call has acted once pc has left "check_resume".
ResumeActed == pc # "check_resume"
ResumeCompleted == pc = "setup"
ResumeRaised(x) == pc = "raised" /\ exc = x

Indices(l, Test(_)) == {i \in 1..Len(l) : Test(l[i])}
IsEnd(c) == c.kind = "end"
IsLast(c) == c.kind = "last"
IsFinishedEnd(c) == c.kind = "end" /\ ~c.unfinished
IsFinishedLast(c) == c.kind = "last" /\ ~c.unfinished
IsFinishedEndFile(c) == c.kind = "end" /\ ~c.unfinished /\ ~c.dist

\* C1: with resume_if_exists and resume_past_end both True and exactly one
\* finished checkpoint matching *end.ckpt in the checkpoint directory,
\* check_resume sets trainer.ckpt_path to that end checkpoint.
C1_EndCheckpointLoaded ==
  (/\ ResumeActed
   /\ cfg.resume_if_exists
   /\ cfg.resume_past_end
   /\ Cardinality(Indices(fs.ckpts, IsFinishedEndFile)) = 1)
  => \E i \in Indices(fs.ckpts, IsFinishedEndFile) :
       trainer.ckpt_path = fs.ckpts[i]

\* C2: when resume_from_checkpoint is given, a check_resume that completes
\* has set trainer.ckpt_path to resume_from_checkpoint, whatever *last.ckpt
\* or *end.ckpt checkpoint was found with resume_if_exists True.
C2_ResumeFromCheckpointOverrides ==
  (ResumeCompleted /\ cfg.resume_from_checkpoint # NoCkpt)
  => trainer.ckpt_path = cfg.resume_from_checkpoint

\* C3: with resume_if_exists True, resume_past_end False and at least one
\* finished end checkpoint, check_resume raises ValueError and leaves
\* trainer.ckpt_path unset, whether or not last checkpoints exist.
C3_EndWithoutPastEndRaises ==
  (/\ ResumeActed
   /\ cfg.resume_if_exists
   /\ ~cfg.resume_past_end
   /\ Indices(fs.ckpts, IsFinishedEnd) # {})
  => ResumeRaised("ValueError") /\ trainer.ckpt_path = NoCkpt

C3_Witness ==
  /\ ResumeRaised("ValueError")
  /\ cfg.resume_if_exists
  /\ ~cfg.resume_past_end
  /\ Indices(fs.ckpts, IsFinishedEnd) # {}
  /\ Indices(fs.ckpts, IsFinishedLast) # {}

\* C4: with resume_if_exists True and a checkpoint directory that does not
\* exist or holds neither an end nor a last checkpoint, check_resume raises
\* NotFoundError unless resume_ignore_no_checkpoint is True; then it raises
\* nothing and trainer.ckpt_path is resume_from_checkpoint if that was given
\* and is left untouched otherwise.
C4_NoCheckpointFound ==
  (/\ ResumeActed
   /\ cfg.resume_if_exists
   /\ (~fs.ckpt_dir_exists \/ fs.ckpts = <<>>))
  => IF cfg.resume_ignore_no_checkpoint
     THEN ResumeCompleted /\ trainer.ckpt_path = cfg.resume_from_checkpoint
     ELSE ResumeRaised("NotFoundError") /\ trainer.ckpt_path = NoCkpt

C4_Witness ==
  /\ ResumeCompleted
  /\ cfg.resume_if_exists
  /\ cfg.resume_ignore_no_checkpoint
  /\ fs.ckpt_dir_exists
  /\ fs.ckpts = <<>>
  /\ trainer.ckpt_path = GivenCkpt

\* C5: with resume_if_exists True, no end checkpoint and *last.ckpt files
\* only: more than one finished last checkpoint makes check_resume raise
\* ValueError, unless the first candidate's path contains 'mp_rank',
\* 'tp_rank' or 'fsdp_shard', and then that candidate with its model-parallel
\* rank component removed is selected; exactly one finished last checkpoint
\* is selected as it is.
NoDistEntry(c) == ~c.dist
C5_LastCheckpointChoice ==
  (/\ ResumeActed
   /\ cfg.resume_if_exists
   /\ Indices(fs.ckpts, IsEnd) = {}
   /\ Indices(fs.ckpts, NoDistEntry) = 1..Len(fs.ckpts))
  => LET finished == SelectSeq(fs.ckpts, IsFinishedLast)
     IN /\ Len(finished) > 1 =>
             IF finished[1].mp \in {"mp_rank", "tp_rank", "fsdp_shard"}
             THEN /\ ResumeCompleted
                  /\ trainer.ckpt_path = [finished[1] EXCEPT !.mp = ""]
             ELSE ResumeRaised("ValueError")
        /\ Len(finished) = 1 =>
             ResumeCompleted /\ trainer.ckpt_path = finished[1]

\* C5 restricted to a local checkpoint directory (not settled by itself: the
\* part of C5 that the code keeps).
C5_LocalDirectory ==
  (is_s3_url(cfg.dirpath) \/ is_multistorageclient_url(cfg.dirpath))
  \/ C5_LastCheckpointChoice

\* C6: with resume_if_exists True, check_resume never writes to
\* trainer.ckpt_path a discovered checkpoint whose unfinished marker is set;
\* it raises ValueError if end checkpoints exist and all of them are
\* unfinished, and likewise for last checkpoints.
C6_UnfinishedBlocksResume ==
  (ResumeActed /\ cfg.resume_if_exists)
  => /\ ~(trainer.ckpt_path.src = "found" /\ trainer.ckpt_path.unfinished)
     /\ (Indices(fs.ckpts, IsEnd) # {} /\ Indices(fs.ckpts, IsFinishedEnd) = {})
          => ResumeRaised("ValueError")
     /\ (Indices(fs.ckpts, IsLast) # {} /\ Indices(fs.ckpts, IsFinishedLast) = {})
          => ResumeRaised("ValueError")

\* C6 restricted to a local checkpoint directory.
C6_LocalDirectory ==
  (is_s3_url(cfg.dirpath) \/ is_multistorageclient_url(cfg.dirpath))
  \/ C6_UnfinishedBlocksResume

\* C7: error_checks does not return normally when the trainer already has a
\* logger and one of create_tensorboard_logger, create_wandb_logger,
\* create_mlflow_logger or create_dllogger_logger is True (it raises
\* LoggerMisconfigurationError).
C7_LoggerConflictRaises ==
  pc = "get_log_dir"
  => ~(/\ trainer.logger.present
       /\ (\/ cfg.create_tensorboard_logger
           \/ cfg.create_wandb_logger
           \/ cfg.create_mlflow_logger
           \/ cfg.create_dllogger_logger))

\* C8 as stated: every call of exp_manager that returns without raising
\* returns the resolved log-directory path, for every trainer and every cfg.
C8_AlwaysReturnsLogDir ==
  pc = "returned" => ret # NoPath /\ ret = loc.log_dir

\* C8 amended: a call that returns without raising returns the log_dir that
\* get_log_dir resolved when cfg is not None and trainer.fast_dev_run is
\* False, and returns None otherwise.
C8_ReturnsLogDirWhenEnabled ==
  pc = "returned"
  => IF cfg.kind = "none" \/ trainer.fast_dev_run
     THEN ret = NoPath
     ELSE ret # NoPath /\ ret = loc.log_dir

C8_Witness ==
  /\ pc = "returned"
  /\ cfg.kind = "dict"
  /\ ~trainer.fast_dev_run
  /\ ret = DefaultExpDir \o <<"default", "<datetime>">>
  /\ ret = loc.log_dir

\* C9: with resume_if_exists True, when check_resume completes on global rank
\* zero, no regular file is left directly under log_dir except those whose
\* name starts with 'events.out.tfevents'; every other file that was there is
\* in one newly created log_dir/run_{int} directory, and the sub-directories
\* of log_dir are left in place.
C9_OldFilesMovedStep ==
  (/\ pc = "check_resume"
   /\ pc' = "setup"
   /\ cfg.resume_if_exists
   /\ env.global_rank_zero)
  => LET others == {f \in fs.files : f[1] # "events.out.tfevents"}
     IN /\ fs'.files = fs.files \ others
        /\ fs.dirs \subseteq fs'.dirs
        /\ fs.moved \subseteq fs'.moved
        /\ IF others = {}
           THEN fs'.dirs = fs.dirs /\ fs'.moved = fs.moved
           ELSE \E d \in fs'.dirs \ fs.dirs :
                  /\ d[1] = "run_"
                  /\ d \notin fs.files
                  /\ fs'.dirs = fs.dirs \cup {d}
                  /\ fs'.moved = fs.moved \cup {<<d, f>> : f \in others}
C9_OldFilesMoved == [][C9_OldFilesMovedStep]_vars

C9_Witness ==
  /\ pc = "setup"
  /\ cfg.resume_if_exists
  /\ env.global_rank_zero
  /\ fs.files = {EventsFile}
  /\ RunDir(1) \in fs.dirs
  /\ {<<RunDir(1), CmdArgsFile>>, <<RunDir(1), ErrLogFile>>} \subseteq fs.moved

\* C10 as stated: with resume_if_exists True, cfg.version empty and the
\* version environment variable unset, get_log_dir returns version None and
\* log_dir equal to exp_dir/name.
C10_UnversionedCall ==
  /\ pc = "get_log_dir"
  /\ pc' = "check_resume"
  /\ cfg.resume_if_exists
  /\ Falsy(cfg.version)
  /\ env.version = None
C10_NoVersionFolderOnResumeStep ==
  C10_UnversionedCall
  => loc'.version = None /\ loc'.log_dir = loc'.exp_dir \o <<loc'.name>>
C10_NoVersionFolderWithoutLoggerStep ==
  (/\ C10_UnversionedCall
   /\ Falsy(cfg.explicit_log_dir)
   /\ ~trainer.logger.present)
  => /\ loc'.version = None
     /\ loc'.log_dir =
          (IF cfg.exp_dir = None THEN <<"<cwd>", "nemo_experiments">>
           ELSE <<cfg.exp_dir>>)
          \o <<IF cfg.name \in {None, ""} THEN "default" ELSE cfg.name>>
LogDirCall == pc = "get_log_dir"
LogDirReturned == pc' = "check_resume"
LogDirRaised(x) == pc' = "raised" /\ exc' = x /\ loc' = loc

\* C11: without explicit_log_dir and without a trainer logger, get_log_dir
\* returns log_dir = exp_dir/name/version, where exp_dir is
\* <cwd>/nemo_experiments when None was passed, name is 'default' when None
\* or empty, and the version is cfg's version when one is passed, whatever
\* the version environment variable holds (which is used only otherwise).
C11_LogDirConcatenationStep ==
  (/\ LogDirCall
   /\ Falsy(cfg.explicit_log_dir)
   /\ ~trainer.logger.present)
  => LET exp == IF cfg.exp_dir = None THEN <<"<cwd>", "nemo_experiments">>
                ELSE <<cfg.exp_dir>>
         nm == IF cfg.name \in {None, ""} THEN "default" ELSE cfg.name
         v == loc'.version
     IN /\ LogDirReturned
        /\ loc'.exp_dir = exp
        /\ loc'.name = nm
        /\ loc'.log_dir = exp \o <<nm>> \o (IF v \in {None, ""} THEN <<>> ELSE <<v>>)
        /\ cfg.version \notin {None, ""} => v = cfg.version
        /\ (cfg.version \in {None, ""} /\ env.version \notin {None, ""})
             => v = env.version
C11_LogDirConcatenation == [][C11_LogDirConcatenationStep]_vars

C11_Witness ==
  /\ pc = "check_resume"
  /\ cfg.explicit_log_dir = None
  /\ ~trainer.logger.present
  /\ cfg.exp_dir = None
  /\ cfg.name = ""
  /\ cfg.version = "cfg_version"
  /\ env.version = "env_version"
  /\ loc.log_dir = <<"<cwd>", "nemo_experiments", "default", "cfg_version">>

\* C12: when explicit_log_dir is set, get_log_dir returns
\* (Path(explicit_log_dir), str(explicit_log_dir), '', '') whatever exp_dir,
\* name and version are, and raises LoggerMisconfigurationError if the
\* trainer already has a logger.
C12_ExplicitLogDirStep ==
  (LogDirCall /\ Truthy(cfg.explicit_log_dir))
  => IF trainer.logger.present
     THEN LogDirRaised("LoggerMisconfigurationError")
     ELSE /\ LogDirReturned
          /\ loc'.log_dir = <<cfg.explicit_log_dir>>
          /\ loc'.exp_dir = <<cfg.explicit_log_dir>>
          /\ loc'.name = ""
          /\ loc'.version = ""
C12_ExplicitLogDir == [][C12_ExplicitLogDirStep]_vars

C12_Witness ==
  /\ pc = "check_resume"
  /\ cfg.explicit_log_dir = "explicit_dir"
  /\ cfg.exp_dir = "exp_dir"
  /\ cfg.name = "exp_name"
  /\ cfg.version = "cfg_version"
  /\ env.version = "env_version"
  /\ loc.log_dir = <<"explicit_dir">>
  /\ loc.exp_dir = <<"explicit_dir">>
  /\ loc.name = ""
  /\ loc.version = ""

\* C13 as stated: without explicit_log_dir, with a trainer logger, get_log_dir
\* raises LoggerMisconfigurationError if a name is passed or if exp_dir is
\* passed while the logger's save_dir is set; otherwise exp_dir is the
\* logger's save_dir, or the default experiment directory
\* <cwd>/nemo_experiments if save_dir is empty, name is logger.name and
\* version is 'version_<logger.version>'.
C13_LoggerCall ==
  /\ LogDirCall
  /\ Falsy(cfg.explicit_log_dir)
  /\ trainer.logger.present
C13_LoggerConflict ==
  \/ cfg.name \notin {None, ""}
  \/ (cfg.exp_dir \notin {None, ""} /\ trainer.logger.save_dir # NoPath)
C13_TakenFromLogger(exp) ==
  /\ LogDirReturned
  /\ loc'.exp_dir = exp
  /\ loc'.name = trainer.logger.name
  /\ loc'.version = "version_" \o trainer.logger.version
  /\ loc'.log_dir = exp \o <<trainer.logger.name>>
                        \o <<"version_" \o trainer.logger.version>>
C13_LoggerDefaultsStep ==
  C13_LoggerCall
  => IF C13_LoggerConflict
     THEN LogDirRaised("LoggerMisconfigurationError")
     ELSE C13_TakenFromLogger(IF trainer.logger.save_dir # NoPath
                              THEN trainer.logger.save_dir
                              ELSE <<"<cwd>", "nemo_experiments">>)
C13_LoggerDefaults == [][C13_LoggerDefaultsStep]_vars

\* C13 amended: the same, except that with an empty save_dir exp_dir is the
\* exp_dir argument when one is passed, and <cwd>/nemo_experiments only when
\* it is None.
C13_LoggerDefaultsOrExpDirStep ==
  C13_LoggerCall
  => IF C13_LoggerConflict
     THEN LogDirRaised("LoggerMisconfigurationError")
     ELSE C13_TakenFromLogger(IF trainer.logger.save_dir # NoPath
                              THEN trainer.logger.save_dir
                              ELSE IF cfg.exp_dir = None
                                   THEN <<"<cwd>", "nemo_experiments">>
                                   ELSE <<cfg.exp_dir>>)
C13_LoggerDefaultsOrExpDir == [][C13_LoggerDefaultsOrExpDirStep]_vars

C13_Witness ==
  /\ pc = "check_resume"
  /\ cfg.explicit_log_dir = None
  /\ trainer.logger.present
  /\ trainer.logger.save_dir = NoPath
  /\ cfg.exp_dir = "exp_dir"
  /\ cfg.name = ""
  /\ loc.log_dir = <<"exp_dir", "logger_name", "version_0">>

\* C14: configure_checkpointing raises CheckpointMisconfigurationError, and
\* appends no callback, if trainer.callbacks already contains a
\* ModelCheckpoint; and over any sequence of exp_manager calls with
\* create_checkpoint_callback True on one trainer, exp_manager has added at
\* most one checkpoint callback.
AddedByExpManager(callbacks) ==
  Cardinality({i \in 1..Len(callbacks) : callbacks[i] = "NeMoModelCheckpoint"})
IsCheckpointCallback(cb) == cb \in {"ModelCheckpoint", "NeMoModelCheckpoint"}
C14_RaisesBeforeAppendingStep ==
  (/\ pc = "configure_checkpointing"
   /\ cfg.create_checkpoint_callback
   /\ \E i \in 1..Len(trainer.callbacks) : IsCheckpointCallback(trainer.callbacks[i]))
  => /\ pc' = "raised"
     /\ exc' = "CheckpointMisconfigurationError"
     /\ \E front \in {<<>>, <<"TimingCallback">>, <<"DeltaTimingCallback">>} :
          trainer'.callbacks = front \o trainer.callbacks
C14_AtMostOneCheckpointCallback ==
  /\ [](AddedByExpManager(trainer.callbacks) <= 1)
  /\ [][C14_RaisesBeforeAppendingStep]_vars

C14_Witness ==
  /\ pc = "raised"
  /\ exc = "CheckpointMisconfigurationError"
  /\ AddedByExpManager(trainer.callbacks) = 1
  /\ cfg.create_checkpoint_callback

\* Vocabulary of the claims about the per-rank log file (Spec): the step that
\* leaves pc = "setup" is the one that adds the file handler.
RankLogFile ==
  <<"nemo_log_globalrank-"
      \o ToString(trainer.node_rank * trainer.num_devices + env.local_rank)
      \o "_localrank-" \o ToString(env.local_rank) \o ".txt", "">>
HandlerAdded ==
  /\ pc' = "configure_loggers"
  /\ env'.file_handlers = env.file_handlers \cup {RankLogFile}
  /\ RankLogFile \notin env.file_handlers
NoHandlerAdded == env'.file_handlers = env.file_handlers

\* C15 as stated: exp_manager adds a file handler for
\* nemo_log_globalrank-<g>_localrank-<l>.txt, g = node_rank*num_devices +
\* local_rank, on every rank by default; with log_local_rank_0_only only where
\* local_rank is 0; with log_global_rank_0_only only where g is 0; and with
\* the testing flag set on every rank, whatever the two options are.
C15_PerRankLogFileStep ==
  pc = "setup"
  => IF env.nemo_testing THEN HandlerAdded
     ELSE IF cfg.log_local_rank_0_only /\ cfg.log_global_rank_0_only THEN TRUE
     ELSE IF cfg.log_local_rank_0_only
          THEN IF env.local_rank = 0 THEN HandlerAdded ELSE NoHandlerAdded
     ELSE IF cfg.log_global_rank_0_only
          THEN IF trainer.node_rank * trainer.num_devices + env.local_rank = 0
               THEN HandlerAdded ELSE NoHandlerAdded
     ELSE HandlerAdded
C15_PerRankLogFile == [][C15_PerRankLogFileStep]_vars

\* C15 amended: the same, except that when both options are True exp_manager
\* raises ValueError and adds no file handler, with or without the testing
\* flag.
C15_PerRankLogFileUnlessBothStep ==
  pc = "setup"
  => IF cfg.log_local_rank_0_only /\ cfg.log_global_rank_0_only
     THEN pc' = "raised" /\ exc' = "ValueError" /\ NoHandlerAdded
     ELSE IF env.nemo_testing THEN HandlerAdded
     ELSE IF cfg.log_local_rank_0_only
          THEN IF env.local_rank = 0 THEN HandlerAdded ELSE NoHandlerAdded
     ELSE IF cfg.log_global_rank_0_only
          THEN IF trainer.node_rank * trainer.num_devices + env.local_rank = 0
               THEN HandlerAdded ELSE NoHandlerAdded
     ELSE HandlerAdded
C15_PerRankLogFileUnlessBoth == [][C15_PerRankLogFileUnlessBothStep]_vars

C15_Witness ==
  /\ pc = "configure_loggers"
  /\ cfg.log_global_rank_0_only
  /\ env.nemo_testing
  /\ trainer.node_rank = 1
  /\ trainer.num_devices = 2
  /\ env.local_rank = 1
  /\ env.file_handlers = {<<"nemo_log_globalrank-3_localrank-1.txt", "">>}

\* Vocabulary of the claims about the recipe factories (SpecRecipes).
Finetuned == factory.fn = "finetune_recipe" /\ factory.pc # "call"
Returned == factory.pc = "returned" /\ Len(factory.result) = 1
NamesScheme(peft_scheme, word) == peft_scheme \in CaseVariants(word)
GivesFullFinetune(tp, pp) ==
  /\ Returned
  /\ factory.result[1].optim.lr = "5e-6"
  /\ factory.result[1].peft = NoPeft
  /\ factory.result[1].trainer.strategy.tensor_model_parallel_size = tp
  /\ factory.result[1].trainer.strategy.pipeline_model_parallel_size = pp
GivesPeft(cls, tp) ==
  /\ Returned
  /\ factory.result[1].optim.lr = "1e-4"
  /\ factory.result[1].peft.cls = cls
  /\ factory.result[1].peft.dim = 16
  /\ factory.result[1].peft.alpha = 32
  /\ factory.result[1].trainer.strategy.tensor_model_parallel_size = tp
  /\ factory.result[1].optim.use_distributed_optimizer = FALSE

\* C16 as stated: finetune_recipe, comparing peft_scheme case-insensitively,
\* gives for None or 'none' learning rate 5e-6, no peft configuration,
\* tensor_model_parallel_size 8 and pipeline_model_parallel_size 4, and for
\* 'lora' or 'dora' learning rate 1e-4, a peft configuration of the matching
\* class with dim 16 and alpha 32, tensor_model_parallel_size 8 and
\* use_distributed_optimizer False.
C16_PeftSchemeSettings ==
  Finetuned
  => LET ps == factory.args.peft_scheme
     IN /\ (ps = NoScheme \/ NamesScheme(ps, <<"n", "o", "n", "e">>))
             => GivesFullFinetune(8, 4)
        /\ NamesScheme(ps, <<"l", "o", "r", "a">>) => GivesPeft("LoRA", 8)
        /\ NamesScheme(ps, <<"d", "o", "r", "a">>) => GivesPeft("DoRA", 8)

\* C16 amended: the same when performance_mode is False; with
\* performance_mode True the learning rate, the peft configuration and
\* use_distributed_optimizer are as stated, but the sizes are
\* tensor_model_parallel_size 4 and pipeline_model_parallel_size 4 for None
\* or 'none', and tensor_model_parallel_size 2 for 'lora' or 'dora'.
C16_PeftSchemeSettingsByMode ==
  Finetuned
  => LET ps == factory.args.peft_scheme
         fast == factory.args.performance_mode
     IN /\ (ps = NoScheme \/ NamesScheme(ps, <<"n", "o", "n", "e">>))
             => GivesFullFinetune(IF fast THEN 4 ELSE 8, 4)
        /\ NamesScheme(ps, <<"l", "o", "r", "a">>)
             => GivesPeft("LoRA", IF fast THEN 2 ELSE 8)
        /\ NamesScheme(ps, <<"d", "o", "r", "a">>)
             => GivesPeft("DoRA", IF fast THEN 2 ELSE 8)

C16_Witness ==
  /\ Finetuned
  /\ factory.args.peft_scheme = <<"D", "o", "R", "A">>
  /\ ~factory.args.performance_mode
  /\ factory.args.base = [tp |-> 1, pp |-> 1, udo |-> TRUE]
  /\ GivesPeft("DoRA", 8)

\* C17: pretrain_recipe yields trainer.num_nodes = num_nodes and
\* trainer.devices = num_gpus_per_node for all num_nodes and
\* num_gpus_per_node, and trainer(...) sets the strategy's
\* tensor_model_parallel_size, pipeline_model_parallel_size,
\* virtual_pipeline_model_parallel_size, context_parallel_size and
\* sequence_parallel to exactly the arguments passed.
C17_ArgumentsPropagate ==
  /\ (factory.fn = "pretrain_recipe" /\ factory.pc # "call")
       => /\ Returned
          /\ factory.result[1].trainer.num_nodes = <<factory.args.num_nodes>>
          /\ factory.result[1].trainer.devices = factory.args.num_gpus_per_node
  /\ (factory.fn = "trainer" /\ factory.pc # "call")
       => /\ Returned
          /\ LET st == factory.result[1].trainer.strategy
                 a == factory.args
             IN /\ st.tensor_model_parallel_size = a.tensor_parallelism
                /\ st.pipeline_model_parallel_size = a.pipeline_parallelism
                /\ st.virtual_pipeline_model_parallel_size
                     = a.virtual_pipeline_parallelism
                /\ st.context_parallel_size = a.context_parallelism
                /\ st.sequence_parallel = a.sequence_parallelism

C17_Witness ==
  /\ factory.fn = "pretrain_recipe"
  /\ factory.args.num_nodes = 2
  /\ factory.args.num_gpus_per_node = 1
  /\ factory.args.performance_mode
  /\ Returned
  /\ factory.result[1].trainer.num_nodes = <<2>>
  /\ factory.result[1].trainer.devices = 1

\* C18: finetune_recipe raises ValueError 'Unrecognized peft scheme: <scheme>'
\* for every peft_scheme string that is not 'lora', 'dora' or 'none' in some
\* mix of upper and lower case, and returns no recipe then.
C18_UnrecognizedSchemeRaises ==
  (/\ Finetuned
   /\ factory.args.peft_scheme # NoScheme
   /\ \A w \in {<<"l", "o", "r", "a">>, <<"d", "o", "r", "a">>, <<"n", "o", "n", "e">>} :
        ~NamesScheme(factory.args.peft_scheme, w))
  => /\ factory.pc = "raised"
     /\ factory.error = [cls |-> "ValueError",
                         msg |-> "Unrecognized peft scheme: ",
                         arg |-> factory.args.peft_scheme]
     /\ factory.result = <<>>

C18_Witness ==
  /\ factory.pc = "raised"
  /\ factory.args.peft_scheme = <<"N", "o", "n", "e", "_">>
  /\ factory.error.cls = "ValueError"
  /\ factory.error.arg = <<"N", "o", "n", "e", "_">>
  /\ factory.result = <<>>

\* C19: configure_checkpointing fills only the checkpoint parameters that are
\* None: dirpath becomes log_dir/checkpoints, filename becomes
\* '<name>--{<monitor>:.4f}-{epoch}', prefix becomes name; a filepath that is
\* not None supplies dirpath (its parent) and filename (its last component)
\* where those are None, and the filepath key is removed; a dirpath, filename
\* or prefix that was set is left as it was.
C19_FillsOnlyUnsetParamsStep ==
  (/\ pc = "configure_checkpointing"
   /\ cfg.create_checkpoint_callback
   /\ \A i \in 1..Len(trainer.callbacks) :
        trainer.callbacks[i] \notin {"ModelCheckpoint", "NeMoModelCheckpoint"})
  => LET old == cfg.checkpoint_callback_params
         new == cfg'.checkpoint_callback_params
         name == loc.checkpoint_name
         deprecated == old.has_filepath /\ old.filepath # NoPath
     IN /\ ~new.has_filepath
        /\ new.dirpath =
             (IF old.dirpath # NoPath THEN old.dirpath
              ELSE IF deprecated
                   THEN SubSeq(old.filepath, 1, Len(old.filepath) - 1)
                   ELSE loc.log_dir \o <<"checkpoints">>)
        /\ new.filename =
             (IF old.filename # None THEN old.filename
              ELSE IF deprecated THEN old.filepath[Len(old.filepath)]
              ELSE name \o "--{"
                     \o (IF old.monitor = None THEN "None" ELSE old.monitor)
                     \o ":.4f}-{epoch}")
        /\ new.prefix = (IF old.prefix # None THEN old.prefix ELSE name)
        /\ new.monitor = old.monitor
        /\ new.always_save_nemo = old.always_save_nemo
C19_FillsOnlyUnsetParams == [][C19_FillsOnlyUnsetParamsStep]_vars

C19_Witness ==
  /\ pc = "finish"
  /\ cfg.create_checkpoint_callback
  /\ ~cfg.checkpoint_callback_params.has_filepath
  /\ cfg.checkpoint_callback_params.dirpath = <<"old_dir">>
  /\ cfg.checkpoint_callback_params.filename = "user_file"
  /\ cfg.checkpoint_callback_params.prefix = "exp_name"
  /\ loc.checkpoint_name = "exp_name"

====
